---------------------------- MODULE Spec2Model ----------------------------
(***************************************************************************)
(* State-machine model of monitor.c, the PSI (pressure stall information)  *)
(* monitor: registration of the three distress triggers, the poll() loop,  *)
(* and the SIGINT/SIGTERM handler that drains the three descriptors.       *)
(*                                                                         *)
(* One step of the main flow or of a signal handler is one action.  A      *)
(* signal may be delivered between any two steps of the main flow, and a   *)
(* handler may itself be interrupted by the other signal: signal() is      *)
(* taken with the semantics of the default glibc build, where the handler  *)
(* stays installed and only the signal being handled is blocked while its  *)
(* handler runs.                                                           *)
(*                                                                         *)
(* continue_event_loop is a plain int written by the handler.  The main    *)
(* flow reads it at lines 152, 154 and 161; a read that the compiler       *)
(* serves from an earlier load behaves as a signal delivered just after    *)
(* that read, which the interleaving of the actions already covers.        *)
(*                                                                         *)
(* argp_parse (line 207) is taken to return; the model starts after it.    *)
(* set_time_str and set_content_str only fill the output buffers and open  *)
(* and close a descriptor of their own, so they are part of the step that  *)
(* calls them.                                                             *)
(***************************************************************************)
EXTENDS Integers, Sequences, FiniteSets, TLC

(***************************************************************************)
(* Program constants (monitor.c:13-50) and the poll.h / signal.h values.   *)
(***************************************************************************)
CPU_TRACKING_WINDOW_MS == 500
IO_TRACKING_WINDOW_MS == 1000
MEMORY_TRACKING_WINDOW_MS == 750
MS_TO_US == 1000
CPU_TRIGGER_THRESHOLD_MS == 50
IO_TRIGGER_THRESHOLD_MS == 100
MEMORY_TRIGGER_THRESHOLD_MS == 75
FD_CPU_IDX == 0
FD_IO_IDX == 1
FD_MEMORY_IDX == 2
SZ_IDX == 3
SZ_EVENT == 256
ERROR_KERNEL_UNSUPPORTED == 1
ERROR_PRESSURE_OPEN == 2
ERROR_PRESSURE_WRITE == 3
ERROR_PRESSURE_POLL_FDS == 4
ERROR_PRESSURE_FILE_GONE == 5
ERROR_PRESSURE_EVENT_UNK == 6

POLLPRI == 2
POLLERR == 8
POLLHUP == 16
POLLNVAL == 32
SIGINT == 2
SIGTERM == 15

(***************************************************************************)
(* Bound of the model: the number of inputs the environment produces in   *)
(* one run, counting the wakes of poll() that report events and the        *)
(* termination signals it sends.                                           *)
(***************************************************************************)
MaxEvents == 3

Idx == 0 .. (SZ_IDX - 1)
Signals == {SIGINT, SIGTERM}
\* the value of exit_code while the process has not exited
RUNNING == 0 - 1

(***************************************************************************)
(* C arithmetic and formatting helpers.                                    *)
(***************************************************************************)
\* the int product a * b; the operands of the program are at most
\* 1000 * 1000, far below the 32-bit limit, so no wrap can occur
IntMul(a, b) == a * b

RECURSIVE BitAnd(_, _)
\* the C operator & on non-negative ints
BitAnd(a, b) ==
    IF a = 0 \/ b = 0 THEN 0
    ELSE (IF (a % 2 = 1) /\ (b % 2 = 1) THEN 1 ELSE 0)
         + 2 * BitAnd(a \div 2, b \div 2)

DIGITS == << "0", "1", "2", "3", "4", "5", "6", "7", "8", "9" >>

RECURSIVE FormatD(_)
\* printf's %d conversion: the decimal digits of n, most significant first
FormatD(n) ==
    IF n < 0 THEN << "-" >> \o FormatD(-n)
    ELSE IF n < 10 THEN << DIGITS[n + 1] >>
    ELSE FormatD(n \div 10) \o << DIGITS[(n % 10) + 1] >>

\* snprintf(buf, size, ...): at most size-1 characters are stored
Snprintf(size, s) == IF Len(s) > size - 1 THEN SubSeq(s, 1, size - 1) ELSE s

NUL == "NUL"

VARIABLES
    pc,                  \* position of the main flow
    i,                   \* loop index of the main flow (lines 117 and 160)
    cpu_exists,          \* environment: does /proc/pressure/cpu exist
    delay_threshold_ms,  \* global array, line 63
    tracking_window_ms,  \* global array, line 64
    fds,                 \* global array of struct pollfd, line 59
    handle,              \* per domain: "none", "open" or "closed"
    written,             \* per domain: the buffers passed to write()
    wret,                \* value of the write() call of line 132 while tested
    close_calls,         \* per domain: number of close(fds[i].fd) calls
    continue_event_loop, \* global run flag, line 65
    event_counter,       \* local array of pressure_event_loop, line 145
    n,                   \* return value of poll(), line 153
    wake,                \* number of poll() returns that reported events
    reports,             \* report lines printed at line 171
    disposition,         \* per signal: "SIG_DFL" or "sig_handler"
    stack,               \* running signal handlers, innermost last
    pending,             \* signals sent while blocked, not yet delivered
    sent,                \* number of signals sent so far
    trace,               \* per handler invocation: the steps it has taken
    exit_code,           \* RUNNING, or the exit status of the process
    killed               \* 0, or the signal whose default action ended it

vars == << pc, i, cpu_exists, delay_threshold_ms, tracking_window_ms, fds,
           handle, written, wret, close_calls, continue_event_loop,
           event_counter,
           n, wake, reports, disposition, stack, pending, sent, trace,
           exit_code, killed >>

envVars == << cpu_exists >>
cfgVars == << delay_threshold_ms, tracking_window_ms >>
regVars == << fds, handle, written, wret >>
loopVars == << event_counter, n, wake, reports >>
sigVars == << disposition, stack, pending, sent, trace, close_calls,
              continue_event_loop, killed >>

Alive == exit_code = RUNNING /\ killed = 0
\* the main flow runs only when no handler is running and no deliverable
\* signal is pending (the kernel delivers it before user code resumes)
MainRuns == Alive /\ stack = << >> /\ pending = {}

Init ==
    /\ pc = "populate_arrays"
    /\ i = 0
    /\ cpu_exists \in BOOLEAN
    /\ delay_threshold_ms = [d \in Idx |-> 0]
    /\ tracking_window_ms = [d \in Idx |-> 0]
    /\ fds = [d \in Idx |-> [fd |-> 0, events |-> 0, revents |-> 0]]
    /\ handle = [d \in Idx |-> "none"]
    /\ written = [d \in Idx |-> << >>]
    /\ wret = 0
    /\ close_calls = [d \in Idx |-> 0]
    /\ continue_event_loop = 1
    /\ event_counter = [d \in Idx |-> 0]
    /\ n = 0
    /\ wake = 0
    /\ reports = << >>
    /\ disposition = [s \in Signals |-> "SIG_DFL"]
    /\ stack = << >>
    /\ pending = {}
    /\ sent = 0
    /\ trace = << >>
    /\ exit_code = RUNNING
    /\ killed = 0

\* exit(status): the process ends; nothing runs afterwards
Exit(status) == exit_code' = status /\ pc' = "exited"

(***************************************************************************)
(* main, lines 206-214: start-up.                                          *)
(***************************************************************************)
PopulatedThreshold ==
    [d \in Idx |-> CASE d = FD_CPU_IDX -> CPU_TRIGGER_THRESHOLD_MS
                     [] d = FD_IO_IDX -> IO_TRIGGER_THRESHOLD_MS
                     [] d = FD_MEMORY_IDX -> MEMORY_TRIGGER_THRESHOLD_MS]

PopulatedWindow ==
    [d \in Idx |-> CASE d = FD_CPU_IDX -> CPU_TRACKING_WINDOW_MS
                     [] d = FD_IO_IDX -> IO_TRACKING_WINDOW_MS
                     [] d = FD_MEMORY_IDX -> MEMORY_TRACKING_WINDOW_MS]

populate_arrays ==
    /\ MainRuns /\ pc = "populate_arrays"
    /\ delay_threshold_ms' = PopulatedThreshold
    /\ tracking_window_ms' = PopulatedWindow
    /\ pc' = "verify_proc_pressure"
    /\ UNCHANGED << i, envVars, regVars, loopVars, sigVars, exit_code >>

\* the result of the existence check read the wrong way round
StatCpuInverted == IF cpu_exists THEN -1 ELSE 0

\* stat(CPU_PRESSURE_FILE, &st), line 182
StatCpu == IF cpu_exists THEN 0 ELSE -1

verify_proc_pressure ==
    /\ MainRuns /\ pc = "verify_proc_pressure"
    /\ IF StatCpu = -1
       THEN Exit(ERROR_KERNEL_UNSUPPORTED) /\ i' = i
       ELSE pc' = "open" /\ i' = 0 /\ exit_code' = exit_code
    /\ UNCHANGED << envVars, cfgVars, regVars, loopVars, sigVars >>

(***************************************************************************)
(* poll_pressure_events, lines 114-138: registration of the triggers.      *)
(***************************************************************************)
\* the descriptor number open() returns for domain d: 0, 1 and 2 are the
\* standard streams and set_content_str closes its own descriptor again
FreshFd(d) == 3 + d

\* the descriptor with its two arguments in the wrong order
DistressEventSwapped(d) ==
    Snprintf(SZ_EVENT,
             << "s", "o", "m", "e", " " >>
             \o FormatD(IntMul(tracking_window_ms[d], MS_TO_US))
             \o << " " >>
             \o FormatD(IntMul(delay_threshold_ms[d], MS_TO_US)))

\* snprintf(distress_event, SZ_EVENT, "some %d %d", ...), lines 126-128
DistressEvent(d) ==
    Snprintf(SZ_EVENT,
             << "s", "o", "m", "e", " " >>
             \o FormatD(IntMul(delay_threshold_ms[d], MS_TO_US))
             \o << " " >>
             \o FormatD(IntMul(tracking_window_ms[d], MS_TO_US)))

\* the strlen(distress_event) + 1 bytes handed to write(), line 132
WriteBuf(d) == DistressEvent(d) \o << NUL >>

\* the possible return values of write() on a buffer of len bytes
WriteResults(len) == {-1, 1, len}

\* the test of line 121 (a bug would test the wrong sign)
OpenFailedWrongTest(fd) == fd > 0

\* line 121
OpenFailed(fd) == fd < 0

\* lines 117-131: open the file, set events, format the descriptor
RegOpen ==
    /\ MainRuns /\ pc = "open"
    /\ \E fd \in {-1, FreshFd(i)} :
          IF OpenFailed(fd)
          THEN /\ fds' = [fds EXCEPT ![i].fd = fd]
               /\ Exit(ERROR_PRESSURE_OPEN)
               /\ UNCHANGED handle
          ELSE /\ fds' = [fds EXCEPT ![i].fd = fd, ![i].events = POLLPRI]
               /\ handle' = [handle EXCEPT ![i] = "open"]
               /\ pc' = "write"
               /\ exit_code' = exit_code
    /\ UNCHANGED << i, envVars, cfgVars, written, wret, loopVars, sigVars >>

\* line 132: the write() call; its value lives until it is compared
RegWrite ==
    /\ MainRuns /\ pc = "write"
    /\ \E ret \in WriteResults(Len(WriteBuf(i))) : wret' = ret
    /\ written' = [written EXCEPT ![i] = Append(@, WriteBuf(i))]
    /\ pc' = "write_chk"
    /\ UNCHANGED << i, envVars, cfgVars, fds, handle, loopVars, sigVars,
                    exit_code >>

\* line 132: the test applied to the value of write()
WriteFailed(ret) == ret < 0

\* lines 132-137: the test, then the next domain or the return
RegWriteCheck ==
    /\ MainRuns /\ pc = "write_chk"
    /\ IF WriteFailed(wret)
       THEN Exit(ERROR_PRESSURE_WRITE) /\ i' = i
       ELSE /\ i' = i + 1
            /\ pc' = IF i + 1 < SZ_IDX THEN "open" ELSE "signal_term"
            /\ exit_code' = exit_code
    /\ wret' = 0
    /\ UNCHANGED << envVars, cfgVars, fds, handle, written, loopVars,
                    sigVars >>

(***************************************************************************)
(* main, lines 211-212: installation of the handlers.                      *)
(***************************************************************************)
InstallTerm ==
    /\ MainRuns /\ pc = "signal_term"
    /\ disposition' = [disposition EXCEPT ![SIGTERM] = "sig_handler"]
    /\ pc' = "signal_int"
    /\ UNCHANGED << i, envVars, cfgVars, regVars, loopVars, stack, pending,
                    sent, trace, close_calls, continue_event_loop, killed,
                    exit_code >>

\* line 212 left out: SIGINT keeps its default action
InstallIntOmitted ==
    /\ MainRuns /\ pc = "signal_int"
    /\ pc' = "loop_init"
    /\ UNCHANGED << i, envVars, cfgVars, regVars, loopVars, sigVars,
                    exit_code >>

InstallInt ==
    /\ MainRuns /\ pc = "signal_int"
    /\ disposition' = [disposition EXCEPT ![SIGINT] = "sig_handler"]
    /\ pc' = "loop_init"
    /\ UNCHANGED << i, envVars, cfgVars, regVars, loopVars, stack, pending,
                    sent, trace, close_calls, continue_event_loop, killed,
                    exit_code >>

(***************************************************************************)
(* pressure_event_loop, lines 144-178.                                     *)
(***************************************************************************)
\* lines 145-151: every counter starts at 1
InitialCounter == 1

LoopInit ==
    /\ MainRuns /\ pc = "loop_init"
    /\ event_counter' = [d \in Idx |-> InitialCounter]
    /\ pc' = "while"
    /\ UNCHANGED << i, envVars, cfgVars, regVars, n, wake, reports, sigVars,
                    exit_code >>

\* line 152: the loop test
WhileTest ==
    /\ MainRuns /\ pc = "while"
    /\ pc' = IF continue_event_loop = 1 THEN "poll" ELSE "return"
    /\ UNCHANGED << i, envVars, cfgVars, regVars, loopVars, sigVars,
                    exit_code >>

\* the revents values poll() may store for an open descriptor that asked
\* for POLLPRI: nothing, the trigger, file gone, or a hang-up
REVENTS == {0, POLLPRI, POLLPRI + POLLERR, POLLHUP}

\* poll() reports POLLNVAL for a descriptor that is not open
PollOutcomes ==
    { r \in [Idx -> REVENTS \cup {POLLNVAL}] :
        /\ \A d \in Idx : (r[d] = POLLNVAL) <=> (handle[d] # "open")
        /\ \E d \in Idx : r[d] # 0 }

AllOpen == \A d \in Idx : handle[d] = "open"

\* line 153: poll() returns the number of descriptors with events
PollReturn ==
    /\ MainRuns /\ pc = "poll"
    /\ AllOpen => wake + sent < MaxEvents
    /\ \E r \in PollOutcomes :
          /\ fds' = [d \in Idx |-> [fds[d] EXCEPT !.revents = r[d]]]
          /\ n' = Cardinality({d \in Idx : r[d] # 0})
    /\ wake' = IF AllOpen THEN wake + 1 ELSE wake
    /\ pc' = "chk_flag"
    /\ UNCHANGED << i, envVars, cfgVars, handle, written, wret,
                    event_counter, reports, sigVars, exit_code >>

\* line 153: poll() fails (EINTR after a handler ran, ENOMEM, ...): it
\* returns -1 and leaves revents as they were
PollFail ==
    /\ MainRuns /\ pc = "poll"
    /\ n' = -1
    /\ pc' = "chk_flag"
    /\ UNCHANGED << i, envVars, cfgVars, regVars, event_counter, wake,
                    reports, sigVars, exit_code >>

\* line 154 left out: the result of poll() is examined whatever the flag
CheckFlagOmitted ==
    /\ MainRuns /\ pc = "chk_flag"
    /\ pc' = "chk_n"
    /\ UNCHANGED << i, envVars, cfgVars, regVars, loopVars, sigVars,
                    exit_code >>

\* line 154
CheckFlag ==
    /\ MainRuns /\ pc = "chk_flag"
    /\ pc' = IF continue_event_loop = 0 THEN "return" ELSE "chk_n"
    /\ UNCHANGED << i, envVars, cfgVars, regVars, loopVars, sigVars,
                    exit_code >>

\* lines 155-160
CheckN ==
    /\ MainRuns /\ pc = "chk_n"
    /\ IF n < 0
       THEN Exit(ERROR_PRESSURE_POLL_FDS) /\ i' = i
       ELSE pc' = "for" /\ i' = 0 /\ exit_code' = exit_code
    /\ UNCHANGED << envVars, cfgVars, regVars, loopVars, sigVars >>

\* the position after iteration d of the loop of line 160
AfterIteration(d) == IF d + 1 < SZ_IDX THEN "for" ELSE "while"

\* the test of line 161 without its run-flag half
SkippedIgnoringFlag(d) == fds[d].revents = 0

\* line 161: the domain is skipped
Skipped(d) == (fds[d].revents = 0) \/ (continue_event_loop = 0)

\* lines 160-163
ForGuard ==
    /\ MainRuns /\ pc = "for"
    /\ IF Skipped(i)
       THEN pc' = AfterIteration(i) /\ i' = i + 1
       ELSE pc' = "classify" /\ i' = i
    /\ UNCHANGED << envVars, cfgVars, regVars, loopVars, sigVars, exit_code >>

\* the error test applied to the wrong bit
IsFileGoneWrongBit(d) == BitAnd(fds[d].revents, POLLHUP) # 0

\* the error test made for all domains before any is processed
IsFileGoneAnywhere(d) ==
    \E e \in Idx : BitAnd(fds[e].revents, POLLERR) # 0

\* line 164
IsFileGone(d) == BitAnd(fds[d].revents, POLLERR) # 0

\* line 168
IsReported(d) == fds[d].events # 0

\* lines 164-168 and 172-175
Classify ==
    /\ MainRuns /\ pc = "classify"
    /\ IF IsFileGone(i) THEN Exit(ERROR_PRESSURE_FILE_GONE)
       ELSE IF IsReported(i) THEN pc' = "report" /\ exit_code' = exit_code
       ELSE Exit(ERROR_PRESSURE_EVENT_UNK)
    /\ UNCHANGED << i, envVars, cfgVars, regVars, loopVars, sigVars >>

\* the count of a pre-increment, ++event_counter[i]
PrintedCountPreIncrement(d) == event_counter[d] + 1

\* line 171: the count printed by event_counter[i]++ is the old value
PrintedCount(d) == event_counter[d]

\* the line naming the file of another index
ReportLineWrongFile(d) ==
    [dom |-> SZ_IDX - 1 - d, count |-> PrintedCount(d), wake |-> wake]

\* line 171: the line printed for domain d (file, count; the time and the
\* content read from the file are not modelled)
ReportLine(d) == [dom |-> d, count |-> PrintedCount(d), wake |-> wake]

\* the report counting the event for the next domain's counter
ReportBumpsOther ==
    /\ MainRuns /\ pc = "report"
    /\ reports' = Append(reports, ReportLine(i))
    /\ event_counter' = [event_counter EXCEPT ![(i + 1) % SZ_IDX] = @ + 1]
    /\ pc' = AfterIteration(i)
    /\ i' = i + 1
    /\ UNCHANGED << envVars, cfgVars, regVars, n, wake, sigVars, exit_code >>

\* lines 169-171: the report line, then the next iteration
Report ==
    /\ MainRuns /\ pc = "report"
    /\ reports' = Append(reports, ReportLine(i))
    /\ event_counter' = [event_counter EXCEPT ![i] = @ + 1]
    /\ pc' = AfterIteration(i)
    /\ i' = i + 1
    /\ UNCHANGED << envVars, cfgVars, regVars, n, wake, sigVars, exit_code >>

\* lines 178 and 214: the loop is left and main returns, status 0
Return ==
    /\ MainRuns /\ pc = "return"
    /\ Exit(0)
    /\ UNCHANGED << i, envVars, cfgVars, regVars, loopVars, sigVars >>

(***************************************************************************)
(* Signals.  signal() installs a handler that stays installed and blocks   *)
(* the signal being handled until its handler returns; the other signal    *)
(* can interrupt a running handler.                                        *)
(***************************************************************************)
Blocked(s) == \E k \in 1 .. Len(stack) : stack[k].sig = s

\* a handler runs when no unblocked signal waits to be delivered first
HandlerRuns == Alive /\ stack # << >> /\ \A s \in pending : Blocked(s)

Top == stack[Len(stack)]

SetTop(f) == [stack EXCEPT ![Len(stack)] = f]

\* the number of handler invocations so far
Requests == Len(trace)

\* handler invocation r takes one more step
Log(r, e) == [trace EXCEPT ![r] = Append(@, e)]

\* delivery of signal s: the default action ends the process, an installed
\* handler starts running on top of whatever was running
Deliver(s) ==
    IF disposition[s] = "SIG_DFL"
    THEN /\ killed' = s
         /\ UNCHANGED << stack, trace >>
    ELSE /\ stack' = Append(stack, [sig |-> s, pc |-> "h_signal_int", i |-> 0,
                                    req |-> Requests + 1])
         /\ trace' = Append(trace, << [ev |-> "enter", dom |-> -1,
                                        arg |-> s] >>)
         /\ killed' = killed

\* the environment sends SIGINT or SIGTERM
SendSignal ==
    /\ Alive /\ wake + sent < MaxEvents
    /\ \E s \in Signals :
          IF Blocked(s)
          THEN /\ pending' = pending \cup {s}
               /\ UNCHANGED << stack, trace, killed >>
          ELSE /\ s \notin pending
               /\ Deliver(s)
               /\ pending' = pending
    /\ sent' = sent + 1
    /\ UNCHANGED << pc, i, envVars, cfgVars, regVars, loopVars, disposition,
                    close_calls, continue_event_loop, exit_code >>

\* a pending signal is delivered as soon as it is no longer blocked
DeliverPending ==
    /\ Alive
    /\ \E s \in pending :
          /\ ~Blocked(s)
          /\ Deliver(s)
          /\ pending' = pending \ {s}
    /\ UNCHANGED << pc, i, envVars, cfgVars, regVars, loopVars, disposition,
                    sent, close_calls, continue_event_loop, exit_code >>

(***************************************************************************)
(* sig_handler, lines 79-88, and close_fds, lines 68-76.                   *)
(***************************************************************************)
\* lines 82-83
HSignalInt ==
    /\ HandlerRuns /\ Top.pc = "h_signal_int"
    /\ disposition' = [disposition EXCEPT ![SIGINT] = "sig_handler"]
    /\ stack' = SetTop([Top EXCEPT !.pc = "h_flag"])
    /\ UNCHANGED << pc, i, envVars, cfgVars, regVars, loopVars, pending, sent,
                    trace, close_calls, continue_event_loop, killed,
                    exit_code >>

\* the handler toggling the run flag instead of clearing it
StoppedFlagToggled == 1 - continue_event_loop

\* line 85: the value stored into the run flag
StoppedFlag == 0

\* lines 84-85
HFlag ==
    /\ HandlerRuns /\ Top.pc = "h_flag"
    /\ disposition' = [disposition EXCEPT ![SIGTERM] = "sig_handler"]
    /\ continue_event_loop' = StoppedFlag
    /\ trace' = Log(Top.req, [ev |-> "flag", dom |-> -1,
                               arg |-> StoppedFlag])
    /\ stack' = SetTop([Top EXCEPT !.pc = "c_usleep", !.i = 0])
    /\ UNCHANGED << pc, i, envVars, cfgVars, regVars, loopVars, pending, sent,
                    close_calls, killed, exit_code >>

\* line 72: the argument of usleep for domain d, in microseconds
UsleepArg(d) == IntMul(tracking_window_ms[d], MS_TO_US)

\* lines 69-72: the pause before the close of domain Top.i
CUsleep ==
    /\ HandlerRuns /\ Top.pc = "c_usleep"
    /\ trace' = Log(Top.req, [ev |-> "usleep", dom |-> Top.i,
                               arg |-> UsleepArg(Top.i)])
    /\ stack' = SetTop([Top EXCEPT !.pc = "c_close"])
    /\ UNCHANGED << pc, i, envVars, cfgVars, regVars, loopVars, disposition,
                    pending, sent, close_calls, continue_event_loop, killed,
                    exit_code >>

\* the loop of line 70 running from the last index down
CloseTargetDescending(d) == SZ_IDX - 1 - d

\* the domain whose descriptor iteration d of the loop of line 70 closes
CloseTarget(d) == d

\* lines 73-75: close(fds[i].fd), then the next iteration or the end
CClose ==
    /\ HandlerRuns /\ Top.pc = "c_close"
    /\ LET d == CloseTarget(Top.i) IN
          /\ close_calls' = [close_calls EXCEPT ![d] = @ + 1]
          /\ handle' = [handle EXCEPT
                          ![d] = IF @ = "open" THEN "closed" ELSE @]
          /\ trace' = Log(Top.req, [ev |-> "close", dom |-> d,
                                     arg |-> fds[d].fd])
    /\ stack' = SetTop([Top EXCEPT
                          !.pc = IF Top.i + 1 < SZ_IDX THEN "c_usleep"
                                 ELSE "h_return",
                          !.i = Top.i + 1])
    /\ UNCHANGED << pc, i, envVars, cfgVars, fds, written, wret, loopVars,
                    disposition, pending, sent, continue_event_loop, killed,
                    exit_code >>

\* lines 75 and 87-88: the handler returns to what it interrupted
HReturn ==
    /\ HandlerRuns /\ Top.pc = "h_return"
    /\ stack' = SubSeq(stack, 1, Len(stack) - 1)
    /\ UNCHANGED << pc, i, envVars, cfgVars, regVars, loopVars, disposition,
                    pending, sent, trace, close_calls, continue_event_loop,
                    killed, exit_code >>

Next ==
    \/ populate_arrays
    \/ verify_proc_pressure
    \/ RegOpen
    \/ RegWrite
    \/ RegWriteCheck
    \/ InstallTerm
    \/ InstallInt
    \/ LoopInit
    \/ WhileTest
    \/ PollReturn
    \/ PollFail
    \/ CheckFlag
    \/ CheckN
    \/ ForGuard
    \/ Classify
    \/ Report
    \/ Return
    \/ SendSignal
    \/ DeliverPending
    \/ HSignalInt
    \/ HFlag
    \/ CUsleep
    \/ CClose
    \/ HReturn

Spec == Init /\ [][Next]_vars

(***************************************************************************)
(* Properties.                                                             *)
(***************************************************************************)
IsPrefix(a, b) == Len(a) <= Len(b) /\ SubSeq(b, 1, Len(a)) = a

\* a handler step reduced to what it does: the kind of step, the domain,
\* and for a pause its length in microseconds
Shape(e) == << e.ev, e.dom, IF e.ev = "usleep" THEN e.arg ELSE 0 >>

ShapeOf(t) == [k \in 1 .. (Len(t) - 1) |-> Shape(t[k + 1])]

\* flag flip, then pause and close of CPU, IO and MEMORY
DrainShape ==
    << << "flag", -1, 0 >>,
       << "usleep", 0, 500 * 1000 >>, << "close", 0, 0 >>,
       << "usleep", 1, 1000 * 1000 >>, << "close", 1, 0 >>,
       << "usleep", 2, 750 * 1000 >>, << "close", 2, 0 >> >>

\* handler invocation r has returned
Returned(r) == \A k \in 1 .. Len(stack) : stack[k].req # r

\* C1: every handled termination request sets the run flag to false, then
\* pauses 500 ms and closes CPU, pauses 1000 ms and closes IO, pauses 750 ms
\* and closes MEMORY, in this order and with nothing in between; no handle
\* is closed while the run flag is still true.
C1_DrainOrder ==
    /\ \A r \in 1 .. Len(trace) :
          /\ IsPrefix(ShapeOf(trace[r]), DrainShape)
          /\ Returned(r) => ShapeOf(trace[r]) = DrainShape
    /\ continue_event_loop = 1 =>
          \A d \in Idx : close_calls[d] = 0 /\ handle[d] # "closed"

C1_Witness ==
    /\ Len(trace) = 1 /\ Returned(1)
    /\ \A d \in Idx : handle[d] = "closed"
    /\ continue_event_loop = 0

\* C2: over any run close() is called at most once on each domain's handle,
\* however many termination requests arrive.
C2_ClosedAtMostOnce == \A d \in Idx : close_calls[d] <= 1

\* C3: the reports of one wake are in the order CPU, IO, MEMORY, and the
\* reports of an earlier wake precede those of a later one.
C3_ReportOrder ==
    \A a, b \in 1 .. Len(reports) :
        a < b => \/ reports[a].wake < reports[b].wake
                 \/ /\ reports[a].wake = reports[b].wake
                    /\ reports[a].dom < reports[b].dom

C3_Witness ==
    \E w \in 1 .. MaxEvents :
        \A d \in Idx : \E k \in 1 .. Len(reports) :
            reports[k].wake = w /\ reports[k].dom = d

\* the main flow is past domain d in the loop of line 160 for this wake
DoneWith(d) ==
    \/ pc \in {"for", "classify", "report"} /\ d < i
    \/ pc \in {"while", "poll"} /\ wake > 0

IsDistress(d) == BitAnd(fds[d].revents, POLLPRI) # 0 /\ ~IsFileGone(d)

ReportsOf(d, w) ==
    {k \in 1 .. Len(reports) : reports[k].dom = d /\ reports[k].wake = w}

\* C4: the k-th report of a domain carries the count k; a wake never yields
\* two reports of one domain; and once the loop is past a domain that
\* signaled distress in this wake, with no termination requested, exactly
\* one report of that domain exists for the wake.
C4_OneReportCountK ==
    /\ \A k \in 1 .. Len(reports) :
          reports[k].count =
             Cardinality({j \in 1 .. k : reports[j].dom = reports[k].dom})
    /\ \A d \in Idx : \A w \in 0 .. wake : Cardinality(ReportsOf(d, w)) <= 1
    /\ \A d \in Idx :
          (Alive /\ continue_event_loop = 1 /\ DoneWith(d) /\ IsDistress(d))
             => Cardinality(ReportsOf(d, wake)) = 1

C4_Witness ==
    \E k \in 1 .. Len(reports) :
        /\ reports[k].count = 2
        /\ IsDistress(reports[k].dom)
        /\ DoneWith(reports[k].dom)

\* C5: with no termination requested, the loop never gets past a domain
\* whose handle signaled file-gone; and a process that exited with code 5
\* stopped at such a domain without reporting it or any later domain of
\* that wake.
C5_FileGoneFatal ==
    /\ \A d \in Idx :
          (Alive /\ continue_event_loop = 1 /\ DoneWith(d)) => ~IsFileGone(d)
    /\ exit_code = ERROR_PRESSURE_FILE_GONE =>
          /\ BitAnd(fds[i].revents, POLLERR) # 0
          /\ \A d \in Idx : d >= i => ReportsOf(d, wake) = {}

C5_Witness ==
    /\ exit_code = ERROR_PRESSURE_FILE_GONE
    /\ i = FD_MEMORY_IDX
    /\ reports # << >>

\* C6: only a domain that signaled the priority condition is about to be
\* reported; any other non-error condition ends the process with code 6.
C6_UnrecognizedFatal ==
    pc = "report" => BitAnd(fds[i].revents, POLLPRI) # 0

\* C7: a process that handled a termination request during the wait loop,
\* whose last wait did not fail, exits with status 0.
C7_CleanExit ==
    (exit_code # RUNNING /\ trace # << >> /\ n >= 0) => exit_code = 0

\* the bytes of the three descriptors
DescCpu ==
    << "s", "o", "m", "e", " ", "5", "0", "0", "0", "0", " ",
       "5", "0", "0", "0", "0", "0" >>

DescIo ==
    << "s", "o", "m", "e", " ", "1", "0", "0", "0", "0", "0", " ",
       "1", "0", "0", "0", "0", "0", "0" >>

DescMemory ==
    << "s", "o", "m", "e", " ", "7", "5", "0", "0", "0", " ",
       "7", "5", "0", "0", "0", "0" >>

Desc(d) == CASE d = 0 -> DescCpu [] d = 1 -> DescIo [] d = 2 -> DescMemory

\* C8: each domain's handle receives at most one write, of the string
\* "some 50000 500000" (CPU), "some 100000 1000000" (IO) or
\* "some 75000 750000" (MEMORY) followed by its terminating NUL, and exactly
\* one once registration is complete.
C8_Descriptor ==
    /\ \A d \in Idx :
          /\ Len(written[d]) <= 1
          /\ \A k \in 1 .. Len(written[d]) : written[d][k] = Desc(d) \o << NUL >>
    /\ pc \in {"signal_term", "signal_int", "loop_init", "while", "poll"} =>
          \A d \in Idx : Len(written[d]) = 1

C8_Witness ==
    pc = "signal_term" /\ \A d \in Idx : Len(written[d]) = 1

\* C9: when /proc/pressure/cpu does not exist, no pressure file is opened,
\* no descriptor is written, and the only exit status is 1.
C9_UnsupportedKernel ==
    ~cpu_exists =>
        /\ \A d \in Idx :
              fds[d].fd = 0 /\ handle[d] = "none" /\ written[d] = << >>
        /\ exit_code \in {RUNNING, ERROR_KERNEL_UNSUPPORTED}
        /\ pc \in {"populate_arrays", "verify_proc_pressure", "exited"}

C9_Witness ==
    ~cpu_exists /\ exit_code = ERROR_KERNEL_UNSUPPORTED

\* C10: when the open of a domain's file fails the process has exited with
\* code 2, nothing was written for that domain, no later domain was opened
\* or written, and the handlers and the wait loop were never reached; and
\* code 2 is used for nothing else.
C10_OpenFailure ==
    /\ \A d \in Idx :
          fds[d].fd < 0 =>
             /\ exit_code = ERROR_PRESSURE_OPEN /\ pc = "exited"
             /\ written[d] = << >> /\ handle[d] = "none"
             /\ \A e \in Idx :
                   e > d => fds[e].fd = 0 /\ handle[e] = "none"
                            /\ written[e] = << >>
             /\ \A s \in Signals : disposition[s] = "SIG_DFL"
             /\ wake = 0 /\ reports = << >>
    /\ exit_code = ERROR_PRESSURE_OPEN => \E d \in Idx : fds[d].fd < 0

C10_Witness ==
    /\ exit_code = ERROR_PRESSURE_OPEN
    /\ fds[FD_IO_IDX].fd < 0
    /\ Len(written[FD_CPU_IDX]) = 1

\* a step of the main flow: its position or its loop index changes
MainStep == << pc, i >>' # << pc, i >>

\* C11: a write() that reports an error or fewer bytes than the descriptor
\* is followed by exit code 3, never by the next registration step.
C11_ShortWriteFatal ==
    [][(pc = "write_chk" /\ MainStep /\ wret # Len(WriteBuf(i)))
          => (exit_code' = ERROR_PRESSURE_WRITE /\ pc' = "exited")]_vars

\* a signaled condition that is neither the trigger nor file-gone
IsUnrecognized(d) ==
    /\ fds[d].revents # 0
    /\ BitAnd(fds[d].revents, POLLPRI) = 0
    /\ BitAnd(fds[d].revents, POLLERR) = 0

FatalCodes ==
    { ERROR_KERNEL_UNSUPPORTED, ERROR_PRESSURE_OPEN, ERROR_PRESSURE_WRITE,
      ERROR_PRESSURE_POLL_FDS, ERROR_PRESSURE_FILE_GONE,
      ERROR_PRESSURE_EVENT_UNK }

\* every exit status is explained by its own cause
CodeHasItsCause ==
    /\ exit_code \in {RUNNING, 0} \cup FatalCodes
    /\ exit_code = ERROR_KERNEL_UNSUPPORTED => ~cpu_exists
    /\ exit_code = ERROR_PRESSURE_OPEN => \E d \in Idx : fds[d].fd < 0
    /\ exit_code = ERROR_PRESSURE_WRITE =>
          /\ Len(written[i]) = 1 /\ handle[i] = "open"
          /\ \A s \in Signals : disposition[s] = "SIG_DFL"
    /\ exit_code = ERROR_PRESSURE_POLL_FDS => n < 0
    /\ exit_code = ERROR_PRESSURE_FILE_GONE =>
          BitAnd(fds[i].revents, POLLERR) # 0
    /\ exit_code = ERROR_PRESSURE_EVENT_UNK => IsUnrecognized(i)
    /\ exit_code = 0 => pc = "exited" /\ continue_event_loop = 0

\* C12: the six fatal codes are pairwise distinct and non-zero, every exit
\* status is the code of its own cause, and each fatal condition ends the
\* process: in particular the loop never gets past a domain that signaled
\* an unrecognized condition while the run flag is set.
C12_ExitCodeIdentifiesCause ==
    /\ Cardinality(FatalCodes) = 6 /\ 0 \notin FatalCodes
    /\ CodeHasItsCause
    /\ \A d \in Idx :
          (Alive /\ continue_event_loop = 1 /\ DoneWith(d))
             => ~IsUnrecognized(d)

AllClosed == \A d \in Idx : handle[d] = "closed"

\* C13: once a drain has begun nothing is written to a pressure file, and
\* once all three handles are closed no report line is emitted (a report
\* opens and reads the domain's pressure file, lines 170-171).
C13_QuietAfterDrain ==
    [][/\ trace # << >> => written' = written
       /\ AllClosed => reports' = reports]_vars

\* the main flow is inside pressure_event_loop
InLoop ==
    pc \in {"loop_init", "while", "poll", "chk_flag", "chk_n", "for",
            "classify", "report", "return"}

\* the signal that started handler invocation r
SignalOf(r) == trace[r][1].arg

C15_FlagOnlyFalls ==
    /\ continue_event_loop = 1
    /\ [][continue_event_loop' # continue_event_loop
             => /\ continue_event_loop = 1 /\ continue_event_loop' = 0
                /\ stack # << >> /\ Top.pc = "h_flag"]_vars

C15_Witness ==
    /\ continue_event_loop = 0
    /\ Len(trace) = 2
    /\ \A r \in 1 .. 2 : Len(trace[r]) >= 2

\* before the wait every domain has an open handle and one write() call,
\* made in the order CPU, IO, MEMORY, and no handler is installed earlier
RegisteredBeforeWait ==
    /\ (Alive /\ pc \in {"while", "poll"} /\ continue_event_loop = 1) =>
          \A d \in Idx : handle[d] = "open" /\ Len(written[d]) = 1
    /\ \A d, e \in Idx :
          (e < d /\ handle[d] # "none") => Len(written[e]) = 1
    /\ (\E s \in Signals : disposition[s] = "sig_handler") =>
          \A d \in Idx : handle[d] # "none" /\ Len(written[d]) = 1

\* C16: the wait is entered with the run flag set only when all three
\* domains have an open handle on which the whole descriptor was written,
\* in the order CPU, IO, MEMORY, and the handlers are installed only after
\* that: registration moves on only after a complete write.
C16_NoPartialRegistration ==
    /\ []RegisteredBeforeWait
    /\ [][(pc = "write_chk" /\ pc' \in {"open", "signal_term"})
             => wret = Len(WriteBuf(i))]_vars

\* C17: a counter never decreases; inside the loop the counters change
\* only together with a report, which adds one to the reported domain's
\* counter and leaves the others alone; and a report of the current wake
\* exists only for a domain whose revents is not zero.
C17_CountersFollowReports ==
    /\ [](\A d \in Idx : ReportsOf(d, wake) # {} => fds[d].revents # 0)
    /\ [][/\ \A d \in Idx : event_counter'[d] >= event_counter[d]
          /\ (pc # "loop_init" /\ reports' = reports)
                => event_counter' = event_counter
          /\ reports' # reports =>
                /\ Len(reports') = Len(reports) + 1
                /\ LET d == reports'[Len(reports')].dom IN
                      /\ fds[d].revents # 0
                      /\ event_counter' =
                            [event_counter EXCEPT ![d] = @ + 1]]_vars

C17_Witness ==
    /\ pc = "while"
    /\ event_counter[FD_CPU_IDX] = InitialCounter
    /\ event_counter[FD_IO_IDX] = InitialCounter + 2
    /\ event_counter[FD_MEMORY_IDX] = InitialCounter + 1
    /\ fds[FD_CPU_IDX].revents = 0

\* C18: the process ends with code 4 only after poll() returned an error;
\* from line 155 a negative result leads to exit 4 and from the failing
\* poll() to that exit no report is printed; when the run flag is found
\* cleared at line 154 the loop is left, whatever poll() returned, and the
\* process does not end with code 4 there.
C18_WaitFailure ==
    /\ [](exit_code = ERROR_PRESSURE_POLL_FDS => n < 0)
    /\ [][/\ (pc = "chk_flag" /\ MainStep /\ continue_event_loop = 0)
                => (pc' = "return" /\ exit_code' = RUNNING)
          /\ (pc = "chk_flag" /\ MainStep /\ continue_event_loop = 1)
                => (pc' = "chk_n" /\ exit_code' = RUNNING)
          /\ (pc = "chk_n" /\ MainStep /\ n < 0)
                => (exit_code' = ERROR_PRESSURE_POLL_FDS /\ pc' = "exited")
          /\ pc \in {"poll", "chk_flag", "chk_n"} => reports' = reports]_vars

C18_Witness ==
    /\ exit_code = ERROR_PRESSURE_POLL_FDS
    /\ continue_event_loop = 1
    /\ Len(reports) >= 2

\* C19: once the run flag is cleared, each remaining iteration of the loop
\* of line 160 skips its domain (no report, no exit) and the loop test of
\* line 152 leaves the loop instead of calling poll() again.
C19_SkipAfterTermination ==
    [][/\ (pc = "for" /\ MainStep /\ continue_event_loop = 0)
             => /\ pc' \in {"for", "while"} /\ i' = i + 1
                /\ reports' = reports /\ exit_code' = RUNNING
       /\ (pc = "while" /\ MainStep /\ continue_event_loop = 0)
             => pc' = "return"]_vars

C19_Witness ==
    /\ Alive /\ continue_event_loop = 0 /\ stack = << >>
    /\ pc = "while" /\ wake > 0
    /\ IsDistress(FD_CPU_IDX) /\ ReportsOf(FD_CPU_IDX, wake) # {}
    /\ IsDistress(FD_IO_IDX) /\ ReportsOf(FD_IO_IDX, wake) = {}
    /\ IsFileGone(FD_MEMORY_IDX)

\* the conditions poll() stored for domain d
HasErr(d) == BitAnd(fds[d].revents, POLLERR) # 0
HasPriOnly(d) == BitAnd(fds[d].revents, POLLPRI) # 0 /\ ~HasErr(d)

\* C20: when the process ends with code 5, the domain at which it ended is
\* the first file-gone domain of the wake; each distress domain before it
\* has exactly one report for the wake, with its counter incremented; a
\* domain without a condition has none, and neither has the file-gone
\* domain nor any domain after it.
C20_ReportedBeforeFileGone ==
    exit_code = ERROR_PRESSURE_FILE_GONE =>
       /\ HasErr(i)
       /\ \A e \in Idx : e < i => ~HasErr(e)
       /\ \A e \in Idx :
             IF e < i /\ HasPriOnly(e)
             THEN /\ Cardinality(ReportsOf(e, wake)) = 1
                  /\ \A k \in ReportsOf(e, wake) :
                        reports[k].count = event_counter[e] - 1
             ELSE (e >= i \/ fds[e].revents = 0) => ReportsOf(e, wake) = {}

C20_Witness ==
    /\ exit_code = ERROR_PRESSURE_FILE_GONE
    /\ i = FD_MEMORY_IDX
    /\ HasPriOnly(FD_CPU_IDX) /\ HasPriOnly(FD_IO_IDX)
    /\ wake = 2

=============================================================================
